---- MODULE Spec2Model ----
(***************************************************************************)
(* Model of the realtime streaming session of routes/streaming.py          *)
(* (websocket_realtime): token check, init handshake, the receive loop     *)
(* with its cumulative windows, the inference call and the error paths;    *)
(* and of the reduction of raw detections to one per species made by the   *)
(* one-shot endpoints of routes/predict.py (specification PredictSpec).    *)
(*                                                                         *)
(* Units: time in whole seconds; latitude/longitude in whole degrees;      *)
(* confidences in hundredths (0.25 is 25).  The recording date is handed   *)
(* to the inference engine untouched and is left out, as is the engine     *)
(* itself: what it returns or raises is a free choice.  So is the outcome  *)
(* of every send_json and close: the transport is not part of the code.    *)
(***************************************************************************)
EXTENDS Integers, Sequences, FiniteSets, TLC

(* ------------------------------ bounds --------------------------------- *)

\* Most binary chunks a client sends in one session.
MaxChunks == 2

\* Largest timeout (seconds) an init payload asks for.
MaxTimeout == 2

\* Latest second, after the handshake, at which the client sends its init.
MaxInitDelay == 1

\* Most seconds one blocking inference call takes.
MaxInferTicks == 1

(* ------------------------- program constants --------------------------- *)

SAMPLE_RATE == 48000

CHANNELS == 1

SAMPLE_WIDTH == 2

WINDOW_SECONDS == 3

WINDOW_BYTES == SAMPLE_RATE * CHANNELS * SAMPLE_WIDTH * WINDOW_SECONDS

\* asyncio.wait_for(websocket.receive_json(), timeout=10.0)
INIT_WAIT == 10

\* asyncio.wait_for(websocket.receive_bytes(), timeout=1.0)
RECV_POLL == 1

WS_1000_NORMAL_CLOSURE == 1000

WS_1008_POLICY_VIOLATION == 1008

WS_1011_INTERNAL_ERROR == 1011

\* The credential the process was started with (auth.EXPECTED_TOKEN).
EXPECTED_TOKEN == "secret"

\* Tokens a client may present in the query string.
Tokens == {"secret", "wrong", ""}

(* ------------------------------ inputs --------------------------------- *)

\* Sizes of the binary chunks a client sends: the reference client's 0.5 s
\* chunk, exactly one window, and a burst that spans two windows.
ChunkSizes == {48000, 288000, 600000}

\* What the inference engine may return for a window (scientific name,
\* confidence); the engine is opaque, so any of these for any window.
DetectionLists ==
    { << >>,
      << [scientific_name |-> "A", confidence |-> 40],
         [scientific_name |-> "B", confidence |-> 90] >> }

\* Outcome of one transport operation (send_json, close): it completes, it
\* raises WebSocketDisconnect, or it raises another exception.
TransportOutcomes == {"ok", "disconnect", "error"}

\* First inbound messages.  form "dict": a JSON object with the given fields;
\* "json": JSON that is not an object (a list, a number); "text": a text
\* frame that is not JSON at all.
InitMessages ==
    { [form |-> "dict", body |-> [lat |-> 60, lon |-> 22, timeout |-> t]]
        : t \in 1..MaxTimeout }
    \cup
    { [form |-> "dict", body |-> [lat |-> 60, timeout |-> 1]],
      [form |-> "dict", body |-> [lat |-> 91, lon |-> 22, timeout |-> 1]],
      [form |-> "dict", body |-> [lat |-> 60, lon |-> 22, timeout |-> 0]],
      [form |-> "dict", body |-> [lat |-> 60, lon |-> 22, min_conf |-> 101, timeout |-> 1]],
      [form |-> "json", body |-> [items |-> 2]],
      [form |-> "text", body |-> [raw |-> 1]] }

(* ------------------------- the frame buffer ---------------------------- *)

\* The buffer is a sequence of runs of bytes; a run [chunk, lo, hi) is the
\* bytes lo..hi-1 of the chunk-th binary message of the session.
RunLen(r) == r.hi - r.lo

RECURSIVE BufLen(_)
\* len(buffer)
BufLen(buf) ==
    IF buf = << >> THEN 0 ELSE RunLen(Head(buf)) + BufLen(Tail(buf))

\* buffer.extend(msg), msg being the n-th message, of `size` bytes
Extend(buf, n, size) ==
    IF size = 0 THEN buf ELSE Append(buf, [chunk |-> n, lo |-> 0, hi |-> size])

RECURSIVE Take(_, _)
\* the first k bytes of buf (all of it when it is shorter)
Take(buf, k) ==
    IF k <= 0 \/ buf = << >> THEN << >>
    ELSE LET r == Head(buf) IN
         IF RunLen(r) <= k
         THEN << r >> \o Take(Tail(buf), k - RunLen(r))
         ELSE << [chunk |-> r.chunk, lo |-> r.lo, hi |-> r.lo + k] >>

RECURSIVE Drop(_, _)
\* buf without its first k bytes
Drop(buf, k) ==
    IF buf = << >> THEN << >>
    ELSE IF k <= 0 THEN buf
    ELSE LET r == Head(buf) IN
         IF RunLen(r) <= k
         THEN Drop(Tail(buf), k - RunLen(r))
         ELSE << [chunk |-> r.chunk, lo |-> r.lo + k, hi |-> r.hi] >> \o Tail(buf)

\* A sliding window: only the last WINDOW_BYTES before the threshold.
SlidingWindowSlice(buf, threshold) ==
    Take(Drop(buf, threshold - WINDOW_BYTES), WINDOW_BYTES)

\* buffer[:next_window_bytes]
WindowSlice(buf, threshold) == Take(buf, threshold)

\* A threshold check that fires on any non-empty buffer.
WindowDueAnyData(buf, threshold) == BufLen(buf) > 0

\* len(buffer) >= next_window_bytes
WindowDue(buf, threshold) == BufLen(buf) >= threshold

\* A scheduler that forgets to advance the threshold.
NextThresholdStuck(threshold) == threshold

\* A scheduler that moves the threshold on by two windows.
NextThresholdSkipsOne(threshold) == threshold + 2 * WINDOW_BYTES

\* next_window_bytes += WINDOW_BYTES
NextThreshold(threshold) == threshold + WINDOW_BYTES

(* --------------------------- detections -------------------------------- *)

RECURSIVE InsertByConfidence(_, _)
\* d put into the descending sequence s, after every entry at least as
\* confident (the sort is stable)
InsertByConfidence(s, d) ==
    IF s = << >> THEN << d >>
    ELSE IF Head(s).confidence >= d.confidence
         THEN << Head(s) >> \o InsertByConfidence(Tail(s), d)
         ELSE << d >> \o s

\* Detections passed on in the order the engine gave them.
UnsortedDetections(dets) == dets

RECURSIVE SortedByConfidence(_)
\* sorted(detections, key=lambda d: d["confidence"], reverse=True)
SortedByConfidence(dets) ==
    IF dets = << >> THEN << >>
    ELSE InsertByConfidence(SortedByConfidence(SubSeq(dets, 1, Len(dets) - 1)),
                            dets[Len(dets)])

(* ------------------- one-shot endpoints (predict.py) ------------------- *)

\* Most raw detections the engine returns for one one-shot request.
MaxRaw == 3

\* Raw detections of a one-shot analysis: several per species, any order.
RawDetections == [scientific_name : {"A", "B"}, confidence : {40, 60, 90}]

RawDetectionLists == UNION { [1..n -> RawDetections] : n \in 0..MaxRaw }

\* The scientific names best_per_species has as keys.
Keys(best) == {best[i].scientific_name : i \in 1..Len(best)}

RECURSIVE KeepFirstPerSpecies(_, _)
\* for det in dets: if species not in best_per_species: add it.  The dict
\* keeps its entries in insertion order, and so does .values().
KeepFirstPerSpecies(best, dets) ==
    IF dets = << >> THEN best
    ELSE KeepFirstPerSpecies(
             IF Head(dets).scientific_name \in Keys(best) THEN best
             ELSE Append(best, Head(dets)),
             Tail(dets))

\* A reduction that keeps the first raw detection of each species.
FirstSeenPerSpecies(raw) == KeepFirstPerSpecies(<< >>, raw)

\* sorted by confidence, descending, then the first entry of each species
BestPerSpecies(raw) == KeepFirstPerSpecies(<< >>, SortedByConfidence(raw))

(* --------------------------- init payload ------------------------------ *)

DEFAULT_MIN_CONF == 25

DEFAULT_TIMEOUT == 30

Has(body, f) == f \in DOMAIN body

\* RealtimeInit(**init_payload) raises (a field is missing or out of range, or
\* the payload is not a JSON object)
InitInvalid(m) ==
    \/ m.form # "dict"
    \/ ~Has(m.body, "lat")
    \/ ~Has(m.body, "lon")
    \/ Has(m.body, "lat") /\ ~(m.body.lat >= -90 /\ m.body.lat <= 90)
    \/ Has(m.body, "lon") /\ ~(m.body.lon >= -180 /\ m.body.lon <= 180)
    \/ Has(m.body, "min_conf") /\ ~(m.body.min_conf >= 0 /\ m.body.min_conf <= 100)
    \/ Has(m.body, "timeout") /\ ~(m.body.timeout >= 1)

\* The validated model, defaults filled in.
RealtimeInit(m) ==
    [ lat      |-> m.body.lat,
      lon      |-> m.body.lon,
      min_conf |-> IF Has(m.body, "min_conf") THEN m.body.min_conf ELSE DEFAULT_MIN_CONF,
      timeout  |-> IF Has(m.body, "timeout") THEN m.body.timeout ELSE DEFAULT_TIMEOUT ]

\* The session's parameters before the init message is validated.
NoInit == [lat |-> 0, lon |-> 0, min_conf |-> 0, timeout |-> 0]

(* ----------------------------- transport ------------------------------- *)

\* Outbound operations.  A detections message carries, besides the list, the
\* length of the window it was computed over (not on the wire; kept to tell
\* the results apart).
SendError(text) ==
    [kind |-> "error", text |-> text, code |-> 0, dets |-> << >>, window |-> 0]

SendTimeout ==
    [kind |-> "timeout", text |-> "", code |-> 0, dets |-> << >>, window |-> 0]

SendDetections(dets, window) ==
    [kind |-> "detections", text |-> "", code |-> 0, dets |-> dets, window |-> window]

Close(code) ==
    [kind |-> "close", text |-> "", code |-> code, dets |-> << >>, window |-> 0]

Entry(op, r) ==
    [kind |-> op.kind, text |-> op.text, code |-> op.code, dets |-> op.dets,
     window |-> op.window, res |-> r]

\* Index of the first operation of rs that does not complete (0: all do).
FirstFailure(rs) ==
    IF \A i \in 1..Len(rs) : rs[i] = "ok" THEN 0
    ELSE CHOOSE i \in 1..Len(rs) :
            rs[i] # "ok" /\ \A j \in 1..(i - 1) : rs[j] = "ok"

\* The operations of ops attempted, in order, each with its outcome: the
\* first one that raises ends the sequence.
Attempts(ops, rs) ==
    LET f == FirstFailure(rs)
        n == IF f = 0 THEN Len(ops) ELSE f
    IN  [i \in 1..n |-> Entry(ops[i], rs[i])]

\* What running ops raises: "ok" (nothing), "disconnect" or "error".
Raised(rs) == IF FirstFailure(rs) = 0 THEN "ok" ELSE rs[FirstFailure(rs)]

Outcomes(n) == [1..n -> TransportOutcomes]

\* except Exception as e: send {"error": "Server error: ..."} and close
ServerErrorOps == << SendError("Server error"), Close(WS_1011_INTERNAL_ERROR) >>

\* What the session has attempted on the transport when ops are run inside
\* the streaming try block: a WebSocketDisconnect is swallowed, any other
\* exception is answered by the Server error handler (outcomes hs).
TryAttempts(ops, rs, hs) ==
    Attempts(ops, rs) \o
        (IF Raised(rs) = "error" THEN Attempts(ServerErrorOps, hs) ELSE << >>)

\* How the try block leaves the handler after ops: "ok" (it goes on), "done"
\* (it returns) or "raised" (an exception leaves websocket_realtime).
TryExit(rs, hs) ==
    IF Raised(rs) = "ok" THEN "ok"
    ELSE IF Raised(rs) = "disconnect" THEN "done"
    ELSE IF Raised(hs) = "ok" THEN "done" ELSE "raised"

\* The same for operations outside any try block: whatever they raise leaves
\* the handler.
PlainExit(rs) == IF Raised(rs) = "ok" THEN "done" ELSE "raised"

(* ------------------------------- state --------------------------------- *)

VARIABLES
    pc,                 \* where websocket_realtime stands
    token,              \* the token of the query string
    now,                \* wall clock, seconds
    waited,             \* seconds spent in the current wait or inference
    init_payload,       \* the first inbound message, as received
    init,               \* the validated RealtimeInit
    start_time,         \* when streaming began
    buffer,             \* the PCM bytes received so far
    next_window_bytes,  \* the next threshold
    wav,                \* the window handed to the inference in flight
    files,              \* temp files that exist
    created,            \* temp files created so far
    analyses,           \* history: every run_birdnet_on_file call and its outcome
    log,                \* history: every send_json / close attempted
    cause,              \* history: why the session ended
    oneshot             \* a request to /predict/file or /predict/stream

vars == << pc, token, now, waited, init_payload, init, start_time, buffer,
           next_window_bytes, wav, files, created, analyses, log, cause,
           oneshot >>

NoPayload == [form |-> "none", body |-> [none |-> 0]]

NoWav == [path |-> 0, data |-> << >>]

\* No one-shot request is being served.
NoRequest ==
    [endpoint |-> "none", raw |-> << >>, phase |-> "none", status |-> 0,
     response |-> << >>]

\* No tick beyond this: the longest a session of these bounds can last.
ClockCap == INIT_WAIT + MaxTimeout + MaxInferTicks

Init ==
    /\ pc = "accept"
    /\ token \in Tokens
    /\ now = 0
    /\ waited = 0
    /\ init_payload = NoPayload
    /\ init = NoInit
    /\ start_time = 0
    /\ buffer = << >>
    /\ next_window_bytes = 0
    /\ wav = NoWav
    /\ files = {}
    /\ created = 0
    /\ analyses = << >>
    /\ log = << >>
    /\ cause = "none"
    /\ oneshot = NoRequest

(* ------------------------------ handshake ------------------------------ *)

\* A check that only turns away a missing token.
TokenRejectedIfEmpty(t) == t = ""

\* verify_token_or_close raises
TokenRejected(t) == t # EXPECTED_TOKEN

\* accept, then the token does not match: close with 1008 and return
RejectToken ==
    /\ pc = "accept"
    /\ TokenRejected(token)
    /\ \E rs \in Outcomes(1) :
        /\ log' = log \o Attempts(<< Close(WS_1008_POLICY_VIOLATION) >>, rs)
        /\ pc' = PlainExit(rs)
    /\ cause' = "bad_token"
    /\ UNCHANGED << token, oneshot, now, waited, init_payload, init, start_time, buffer,
                    next_window_bytes, wav, files, created, analyses >>

\* accept, the token matches: wait for the init message
AcceptToken ==
    /\ pc = "accept"
    /\ ~TokenRejected(token)
    /\ pc' = "await_init"
    /\ waited' = 0
    /\ UNCHANGED << token, oneshot, now, init_payload, init, start_time, buffer,
                    next_window_bytes, wav, files, created, analyses, log, cause >>

\* A payload check that forgets the required longitude.
InitAcceptedWithoutLon(m) ==
    /\ m.form = "dict"
    /\ Has(m.body, "lat") /\ m.body.lat >= -90 /\ m.body.lat <= 90
    /\ Has(m.body, "timeout") => m.body.timeout >= 1

\* RealtimeInit(**init_payload) does not raise
InitAccepted(m) == ~InitInvalid(m)

\* receive_json returns or raises within the 10 s
RecvInit(m) ==
    /\ pc = "await_init"
    /\ waited <= MaxInitDelay
    /\ waited < INIT_WAIT
    /\ init_payload' = m
    /\ IF m.form = "text"
       THEN \* json.loads raises: neither TimeoutError nor WebSocketDisconnect
            /\ pc' = "raised"
            /\ cause' = "init_undecodable"
            /\ UNCHANGED << init, start_time, buffer, next_window_bytes, log, waited >>
       ELSE IF ~InitAccepted(m)
       THEN /\ \E rs \in Outcomes(2) :
                /\ log' = log \o Attempts(<< SendError("Invalid init payload"),
                                             Close(WS_1008_POLICY_VIOLATION) >>, rs)
                /\ pc' = PlainExit(rs)
            /\ cause' = "init_invalid"
            /\ UNCHANGED << init, start_time, buffer, next_window_bytes, waited >>
       ELSE /\ init' = RealtimeInit(m)
            /\ buffer' = << >>
            /\ start_time' = now
            /\ next_window_bytes' = WINDOW_BYTES
            /\ pc' = "loop"
            /\ waited' = 0
            /\ UNCHANGED << log, cause >>
    /\ UNCHANGED << token, oneshot, now, wav, files, created, analyses >>

\* A handler that answers the failed wait like an invalid payload.
InitWaitFailedOpsWithError ==
    << SendError("Invalid init payload"), Close(WS_1008_POLICY_VIOLATION) >>

\* except (asyncio.TimeoutError, WebSocketDisconnect): close with 1008
InitWaitFailedOps == << Close(WS_1008_POLICY_VIOLATION) >>

\* asyncio.TimeoutError after 10 s without a message
InitTimeout ==
    /\ pc = "await_init"
    /\ waited >= INIT_WAIT
    /\ \E rs \in Outcomes(Len(InitWaitFailedOps)) :
        /\ log' = log \o Attempts(InitWaitFailedOps, rs)
        /\ pc' = PlainExit(rs)
    /\ cause' = "init_timeout"
    /\ UNCHANGED << token, oneshot, now, waited, init_payload, init, start_time, buffer,
                    next_window_bytes, wav, files, created, analyses >>

\* WebSocketDisconnect while waiting for the init message
InitDisconnect ==
    /\ pc = "await_init"
    /\ \E rs \in Outcomes(Len(InitWaitFailedOps)) :
        /\ log' = log \o Attempts(InitWaitFailedOps, rs)
        /\ pc' = PlainExit(rs)
    /\ cause' = "init_disconnect"
    /\ UNCHANGED << token, oneshot, now, waited, init_payload, init, start_time, buffer,
                    next_window_bytes, wav, files, created, analyses >>

(* --------------------------- streaming loop ---------------------------- *)

\* A deadline compared in the wrong unit (seconds against milliseconds).
TimedOutWrongUnit(elapsed, timeout_seconds) == elapsed >= timeout_seconds * 1000

\* A deadline check that fires a second early.
TimedOutEarly(elapsed, timeout_seconds) == elapsed + 1 >= timeout_seconds

\* elapsed >= timeout_seconds
TimedOut(elapsed, timeout_seconds) == elapsed >= timeout_seconds

\* (datetime.now(timezone.utc) - start_time).total_seconds()
Elapsed == now - start_time

\* A timeout that closes as an internal error.
TimeoutOpsInternalError == << SendTimeout, Close(WS_1011_INTERNAL_ERROR) >>

\* send {"timeout": True}, then close with 1000
TimeoutOps == << SendTimeout, Close(WS_1000_NORMAL_CLOSURE) >>

\* top of the loop, the budget is used up: notify, close, return
LoopTimeout ==
    /\ pc = "loop"
    /\ TimedOut(Elapsed, init.timeout)
    /\ \E rs \in Outcomes(2), hs \in Outcomes(2) :
        /\ log' = log \o TryAttempts(TimeoutOps, rs, hs)
        /\ pc' = IF TryExit(rs, hs) = "ok" THEN "done" ELSE TryExit(rs, hs)
    /\ cause' = "timeout"
    /\ UNCHANGED << token, oneshot, now, waited, init_payload, init, start_time, buffer,
                    next_window_bytes, wav, files, created, analyses >>

\* top of the loop, budget left: wait up to 1 s for the next binary message
LoopWait ==
    /\ pc = "loop"
    /\ ~TimedOut(Elapsed, init.timeout)
    /\ pc' = "recv"
    /\ waited' = 0
    /\ UNCHANGED << token, oneshot, now, init_payload, init, start_time, buffer,
                    next_window_bytes, wav, files, created, analyses, log, cause >>

\* A receive that is also served while the inference call runs.
ReceivingDuringInference == pc \in {"recv", "infer"}

\* The handler is suspended in wait_for(websocket.receive_bytes(), 1.0).
Receiving == pc = "recv"

\* WebSocketDisconnect while waiting for a chunk: return
RecvDisconnect ==
    /\ Receiving
    /\ pc' = "done"
    /\ cause' = "disconnect"
    /\ UNCHANGED << token, oneshot, now, waited, init_payload, init, start_time, buffer,
                    next_window_bytes, wav, files, created, analyses, log >>

\* write_temp_wav: the temp file is created and filled ("ok"), cannot be
\* created ("create_error"), or is created and the write raises ("write_error")
WriteOutcomes == {"ok", "create_error", "write_error"}

\* An error path that goes on with the loop instead of returning.
AfterFailureContinue(exit) == "loop"

\* The handler's position after an error path: it has returned, or the
\* exception has left it.
AfterFailure(exit) == IF exit = "ok" THEN "done" ELSE exit

\* The rest of an iteration once the buffer is buf: when the threshold is
\* reached, write the window to a temp file (outcome w) and call the
\* inference (which blocks: see InferReturn, InferRaise).
ProcessBuffer(buf, w) ==
    /\ buffer' = buf
    /\ IF ~WindowDue(buf, next_window_bytes)
       THEN /\ pc' = "loop"
            /\ UNCHANGED << wav, files, created, analyses, log, cause, waited >>
       ELSE IF w = "ok"
       THEN /\ created' = created + 1
            /\ files' = files \cup {created + 1}
            /\ wav' = [path |-> created + 1,
                       data |-> WindowSlice(buf, next_window_bytes),
                       threshold |-> next_window_bytes]
            /\ analyses' = Append(analyses,
                                  [threshold |-> next_window_bytes,
                                   buflen |-> BufLen(buf),
                                   data |-> WindowSlice(buf, next_window_bytes),
                                   path |-> created + 1,
                                   outcome |-> "running",
                                   returned |-> << >>])
            /\ pc' = "infer"
            /\ waited' = 0
            /\ UNCHANGED << log, cause >>
       ELSE /\ created' = IF w = "write_error" THEN created + 1 ELSE created
            /\ files' = IF w = "write_error" THEN files \cup {created + 1} ELSE files
            /\ \E rs \in Outcomes(2), hs \in Outcomes(2) :
                /\ log' = log \o TryAttempts(<< SendError("I/O error"),
                                                Close(WS_1011_INTERNAL_ERROR) >>, rs, hs)
                /\ pc' = AfterFailure(TryExit(rs, hs))
            /\ cause' = "io_error"
            /\ UNCHANGED << wav, analyses, waited >>
    /\ UNCHANGED << token, oneshot, now, init_payload, init, start_time, next_window_bytes >>

\* A poll timeout that goes on to the threshold check instead of continuing.
PollTimeoutFallsThrough == \E w \in WriteOutcomes : ProcessBuffer(buffer, w)

\* except asyncio.TimeoutError: continue
PollTimeoutContinue ==
    /\ pc' = "loop"
    /\ UNCHANGED << token, oneshot, now, waited, init_payload, init, start_time, buffer,
                    next_window_bytes, wav, files, created, analyses, log, cause >>

\* asyncio.TimeoutError of the 1 s poll: back to the top of the loop
RecvTimeout ==
    /\ Receiving
    /\ waited >= RECV_POLL
    /\ PollTimeoutContinue

\* A binary message of `size` bytes arrives: extend the buffer and go on with
\* the iteration.
RecvChunk(size, w) ==
    /\ Receiving
    /\ Len(buffer) < MaxChunks
    /\ ProcessBuffer(Extend(buffer, Len(buffer) + 1, size), w)

\* run_birdnet_on_file returns dets: remove the temp file, send the sorted
\* detections, advance the threshold
InferReturn(dets) ==
    /\ pc = "infer"
    /\ files' = files \ {wav.path}
    /\ wav' = NoWav
    /\ \E rs \in Outcomes(1), hs \in Outcomes(2) :
        /\ log' = log \o TryAttempts(<< SendDetections(SortedByConfidence(dets),
                                                      wav.threshold) >>, rs, hs)
        /\ IF TryExit(rs, hs) = "ok"
           THEN /\ next_window_bytes' = NextThreshold(next_window_bytes)
                /\ pc' = "loop"
                /\ cause' = cause
           ELSE /\ next_window_bytes' = next_window_bytes
                /\ pc' = TryExit(rs, hs)
                /\ cause' = "send_failed"
    /\ analyses' = [analyses EXCEPT ![Len(analyses)] =
                        [@ EXCEPT !.outcome = "returned", !.returned = dets]]
    /\ UNCHANGED << token, oneshot, now, waited, init_payload, init, start_time, buffer,
                    created >>

\* run_birdnet_on_file raises: remove the temp file, send the error, close
\* with 1011, return (the finally clause removes the file once more)
InferRaise ==
    /\ pc = "infer"
    /\ files' = files \ {wav.path}
    /\ wav' = NoWav
    /\ \E rs \in Outcomes(2), hs \in Outcomes(2) :
        /\ log' = log \o TryAttempts(<< SendError("BirdNET failed"),
                                        Close(WS_1011_INTERNAL_ERROR) >>, rs, hs)
        /\ pc' = AfterFailure(TryExit(rs, hs))
    /\ cause' = "infer_error"
    /\ analyses' = [analyses EXCEPT ![Len(analyses)] = [@ EXCEPT !.outcome = "raised"]]
    /\ UNCHANGED << token, oneshot, now, waited, init_payload, init, start_time, buffer,
                    next_window_bytes, created >>

\* One second passes while the session waits for the init message, waits for
\* a chunk, or is inside the blocking inference call.  A wait's timer fires
\* when its time is up, so no further second passes in that wait.
Tick ==
    /\ now < ClockCap
    /\ \/ pc = "await_init" /\ waited < INIT_WAIT
       \/ pc = "recv" /\ waited < RECV_POLL
       \/ pc = "infer" /\ waited < MaxInferTicks
    /\ now' = now + 1
    /\ waited' = waited + 1
    /\ UNCHANGED << pc, token, oneshot, init_payload, init, start_time, buffer,
                    next_window_bytes, wav, files, created, analyses, log, cause >>

Next ==
    \/ RejectToken
    \/ AcceptToken
    \/ \E m \in InitMessages : RecvInit(m)
    \/ InitTimeout
    \/ InitDisconnect
    \/ LoopTimeout
    \/ LoopWait
    \/ RecvTimeout
    \/ RecvDisconnect
    \/ \E size \in ChunkSizes, w \in WriteOutcomes : RecvChunk(size, w)
    \/ \E dets \in DetectionLists : InferReturn(dets)
    \/ InferRaise
    \/ Tick

Spec == Init /\ [][Next]_vars

\* The handler's own steps are taken when they can be, the inference returns
\* or raises, and time goes on; the client is free to send, stay silent or
\* leave.
LiveSpec ==
    /\ Spec
    /\ WF_vars(LoopTimeout)
    /\ WF_vars(LoopWait)
    /\ WF_vars(RecvTimeout)
    /\ WF_vars((\E dets \in DetectionLists : InferReturn(dets)) \/ InferRaise)
    /\ WF_vars(Tick)

(* ------------------------- one-shot requests --------------------------- *)

\* How a one-shot request goes: the upload is saved and analysed, the upload
\* cannot be saved, or the analysis raises.
PredictOutcomes == {"ok", "save_error", "analysis_error"}

\* The response of a one-shot endpoint: 500 when saving or analysing failed,
\* else 200 with one Detection per entry of best_per_species.
PredictResponse(o) ==
    [oneshot EXCEPT !.phase = "responded",
                    !.status = IF o = "ok" THEN 200 ELSE 500,
                    !.response = IF o = "ok" THEN BestPerSpecies(oneshot.raw)
                                 ELSE << >>]

\* POST /predict/file
predict_from_file(o) ==
    /\ oneshot.phase = "request"
    /\ oneshot.endpoint = "file"
    /\ oneshot' = PredictResponse(o)
    /\ UNCHANGED << pc, token, now, waited, init_payload, init, start_time, buffer,
                    next_window_bytes, wav, files, created, analyses, log, cause >>

\* POST /predict/stream
predict_from_stream(o) ==
    /\ oneshot.phase = "request"
    /\ oneshot.endpoint = "stream"
    /\ oneshot' = PredictResponse(o)
    /\ UNCHANGED << pc, token, now, waited, init_payload, init, start_time, buffer,
                    next_window_bytes, wav, files, created, analyses, log, cause >>

\* A one-shot request arrives; raw is what the engine will find in it.  No
\* realtime session is involved.
PredictInit ==
    /\ oneshot \in { [endpoint |-> e, raw |-> r, phase |-> "request", status |-> 0,
                       response |-> << >>]
                     : e \in {"file", "stream"}, r \in RawDetectionLists }
    /\ pc = "none"
    /\ token = EXPECTED_TOKEN
    /\ now = 0
    /\ waited = 0
    /\ init_payload = NoPayload
    /\ init = NoInit
    /\ start_time = 0
    /\ buffer = << >>
    /\ next_window_bytes = 0
    /\ wav = NoWav
    /\ files = {}
    /\ created = 0
    /\ analyses = << >>
    /\ log = << >>
    /\ cause = "none"

PredictNext ==
    \/ \E o \in PredictOutcomes : predict_from_file(o)
    \/ \E o \in PredictOutcomes : predict_from_stream(o)

PredictSpec == PredictInit /\ [][PredictNext]_vars

(* ============================== claims ================================= *)

IsDetections(e) == e.kind = "detections"

IsError(e) == e.kind = "error"

\* The detections messages the session has sent, in order.
Results == SelectSeq(log, IsDetections)

\* The error messages the session has sent, in order.
Errors == SelectSeq(log, IsError)

\* Some send_json or close of the session raised.
TransportFailed == \E i \in 1..Len(log) : log[i].res # "ok"

\* The session is over: the handler returned or an exception left it.
Ended == pc \in {"done", "raised"}

\* C1: whenever the session waits for the next chunk (so nothing has failed,
\* timed out or disconnected) having received at least 288000 bytes, the
\* number of analysis invocations equals floor(total_bytes / 288000).
C1_AnalysesEqualFloor ==
    (pc = "recv" /\ BufLen(buffer) >= WINDOW_BYTES)
        => Len(analyses) = BufLen(buffer) \div WINDOW_BYTES

\* C2: before each inbound read, every threshold the buffer has crossed has
\* had its analysis and its result sent, in increasing order: none is
\* skipped or deferred, also when one chunk crossed several.
C2_AllCrossedBeforeNextRead ==
    pc = "recv" =>
        \A k \in 1..(BufLen(buffer) \div WINDOW_BYTES) :
            /\ Len(Results) >= k
            /\ Results[k].window = k * WINDOW_BYTES

\* C3: the i-th analysis invocation is run over exactly the first
\* i * 288000 bytes of the session buffer, from byte 0 on.
C3_CumulativePrefix ==
    \A i \in 1..Len(analyses) :
        /\ BufLen(analyses[i].data) = i * WINDOW_BYTES
        /\ analyses[i].data = Take(buffer, i * WINDOW_BYTES)
        /\ analyses[i].data[1].chunk = 1
        /\ analyses[i].data[1].lo = 0

\* C3 witness: a second window has been analysed, made of more than one chunk.
C3_Witness ==
    /\ Len(analyses) >= 2
    /\ Len(analyses[2].data) >= 2

\* C4: the k-th detections message sent is the result for threshold
\* k * 288000, so results go out in strictly increasing boundary order.
C4_ResultsInBoundaryOrder ==
    \A k \in 1..Len(Results) : Results[k].window = k * WINDOW_BYTES

\* C4 witness: two results have been sent, the second after a burst left a
\* crossed threshold waiting.
C4_Witness ==
    /\ Len(Results) >= 2
    /\ \A k \in 1..2 : Results[k].res = "ok"
    /\ analyses[1].buflen >= 2 * WINDOW_BYTES

\* C5: each threshold value is analysed at most once, and an analysis for a
\* threshold starts only when the buffer is at least that long.
C5_AtMostOncePerThreshold ==
    /\ \A i, j \in 1..Len(analyses) :
          i # j => analyses[i].threshold # analyses[j].threshold
    /\ \A i \in 1..Len(analyses) :
          /\ analyses[i].threshold > 0
          /\ analyses[i].buflen >= analyses[i].threshold

\* C5 witness: two windows analysed, the first with the buffer strictly
\* beyond its threshold.
C5_Witness ==
    /\ Len(analyses) = 2
    /\ analyses[1].buflen > analyses[1].threshold

\* C6: once the inference or the temp-file write has failed for a window the
\* session is over (that window and later ones are never attempted); the
\* results of the earlier windows are all there; and, the transport working,
\* the session sends exactly one error message after them and closes with 1011.
C6_FailureIsTerminal ==
    cause \in {"io_error", "infer_error"} =>
        /\ Ended
        /\ wav = NoWav
        /\ Len(analyses) = IF cause = "infer_error" THEN Len(Results) + 1
                           ELSE Len(Results)
        /\ next_window_bytes = (Len(Results) + 1) * WINDOW_BYTES
        /\ \A k \in 1..Len(Results) :
              /\ log[k] = Results[k]
              /\ log[k].res = "ok"
              /\ log[k].window = k * WINDOW_BYTES
        /\ Len(log) > Len(Results)
        /\ log[Len(Results) + 1].kind = "error"
        /\ ~TransportFailed =>
              /\ pc = "done"
              /\ Len(Errors) = 1
              /\ Len(log) = Len(Results) + 2
              /\ log[Len(log)] = Entry(Close(WS_1011_INTERNAL_ERROR), "ok")

\* C6 witness: the inference failed on window 2: one detections message, one
\* error message, close.
C6_Witness ==
    /\ cause = "infer_error"
    /\ pc = "done"
    /\ Len(log) = 3
    /\ log[1].kind = "detections" /\ log[2].kind = "error" /\ log[3].kind = "close"
    /\ ~TransportFailed

\* C7: a session that got no audio byte and reached its timeout sends, the
\* transport working, exactly {"timeout": true} and then closes with 1000;
\* it never sends a detections message, and the timeout is only sent once the
\* elapsed time has reached the configured timeout.
C7_SilentSessionTimesOut ==
    (cause = "timeout" /\ buffer = << >>) =>
        /\ Results = << >>
        /\ Elapsed >= init.timeout
        /\ log[1].kind = "timeout"
        /\ ~TransportFailed =>
              /\ pc = "done"
              /\ log = << Entry(SendTimeout, "ok"),
                          Entry(Close(WS_1000_NORMAL_CLOSURE), "ok") >>

\* C7 witness: a silent session timed out and was closed.
C7_Witness ==
    /\ cause = "timeout"
    /\ buffer = << >>
    /\ pc = "done"
    /\ ~TransportFailed

\* The timeout notification went out and the normal closure followed.
TimeoutDelivered ==
    \E i \in 1..(Len(log) - 1) :
        /\ log[i] = Entry(SendTimeout, "ok")
        /\ log[i + 1] = Entry(Close(WS_1000_NORMAL_CLOSURE), "ok")

\* C8: a session in the streaming loop eventually sends {"timeout": true}
\* and closes with 1000, unless the client disconnects, the inference or the
\* temp-file write fails, or a transport operation raises; whatever chunks
\* arrive and whenever.
C8_EventuallyTimesOut ==
    (pc \in {"loop", "recv", "infer"}) ~>
        \/ TimeoutDelivered /\ pc = "done"
        \/ cause \in {"disconnect", "io_error", "infer_error"}
        \/ TransportFailed

\* C8 witness: a session that received chunks and had windows analysed was
\* ended by the timeout.
C8_Witness ==
    /\ TimeoutDelivered
    /\ pc = "done"
    /\ Len(buffer) = MaxChunks
    /\ Len(Results) >= 1

\* C9: with a token other than the expected one the session only ever
\* closes with 1008: no payload message, no init message read, no audio
\* buffered, no analysis.
C9_BadTokenOnlyCloses ==
    token # EXPECTED_TOKEN =>
        /\ pc \in {"accept", "done", "raised"}
        /\ init_payload = NoPayload
        /\ init = NoInit
        /\ buffer = << >>
        /\ analyses = << >>
        /\ created = 0
        /\ Len(log) <= 1
        /\ \A i \in 1..Len(log) :
              /\ log[i].kind = "close"
              /\ log[i].code = WS_1008_POLICY_VIOLATION
        /\ pc # "accept" => (Len(log) = 1 /\ cause = "bad_token")

\* C9 witness: a wrong token has been turned away with the 1008 close.
C9_Witness ==
    /\ token = "wrong"
    /\ pc = "done"
    /\ log = << Entry(Close(WS_1008_POLICY_VIOLATION), "ok") >>

\* C10: after any first inbound message that is not a valid init payload
\* (field missing, value out of range, not a JSON object, not JSON at all),
\* the server, the transport working, has sent {"error": "Invalid init
\* payload"} and closed with 1008, and never streams.
C10_InvalidInitRejected ==
    (init_payload # NoPayload /\ (init_payload.form = "text" \/ InitInvalid(init_payload)))
        =>
        /\ Ended
        /\ buffer = << >>
        /\ analyses = << >>
        /\ ~TransportFailed =>
              log = << Entry(SendError("Invalid init payload"), "ok"),
                       Entry(Close(WS_1008_POLICY_VIOLATION), "ok") >>

\* C11: when the 10 s wait for the init message runs out, the server only
\* attempts the close with 1008: no payload message is sent, no init message
\* was read, and the session never streams (nothing buffered or analysed).
C11_InitTimeoutOnlyCloses ==
    cause = "init_timeout" =>
        /\ waited >= INIT_WAIT
        /\ Ended
        /\ Len(log) = 1
        /\ log[1].kind = "close"
        /\ log[1].code = WS_1008_POLICY_VIOLATION
        /\ log[1].res = "ok" => pc = "done"
        /\ init_payload = NoPayload
        /\ init = NoInit
        /\ next_window_bytes = 0
        /\ buffer = << >>
        /\ analyses = << >>
        /\ created = 0

\* C11 witness: ten seconds passed without an init message and the 1008
\* close went out.
C11_Witness ==
    /\ cause = "init_timeout"
    /\ now >= INIT_WAIT
    /\ pc = "done"
    /\ log = << Entry(Close(WS_1008_POLICY_VIOLATION), "ok") >>

\* C12: once the transport has signalled a disconnect while the session was
\* waiting (for the init message or for the next chunk), the session is over
\* and has attempted nothing on the connection since: the send history holds
\* only what was sent before, no analysis is in flight, none was started.
C12_DisconnectEndsSilently ==
    /\ cause = "init_disconnect" =>
          /\ Ended
          /\ log = << >>
          /\ analyses = << >>
    /\ cause = "disconnect" =>
          /\ pc = "done"
          /\ wav = NoWav
          /\ Len(analyses) = Len(Results)
          /\ \A i \in 1..Len(log) : log[i].kind = "detections" /\ log[i].res = "ok"

\* C13: whenever the session waits for the next chunk or has ended, no temp
\* file it created still exists; and no two analyses were given the same
\* temp file.
C13_TempFilesAllDeleted ==
    /\ pc \in {"loop", "recv", "done", "raised"} => files = {}
    /\ \A i, j \in 1..Len(analyses) : i # j => analyses[i].path # analyses[j].path

\* C14: a close that fails is the last thing the session attempts on the
\* connection: no error message (nor anything else) follows it.
C14_FailedCloseNotReported ==
    \A i \in 1..Len(log) :
        (log[i].kind = "close" /\ log[i].res # "ok") => i = Len(log)

\* The detections of s that equal d.
Occurrences(s, d) == Cardinality({i \in 1..Len(s) : s[i] = d})

\* a and b hold the same detections, each as many times.
SameDetections(a, b) ==
    /\ Len(a) = Len(b)
    /\ \A i \in 1..Len(a) : Occurrences(a, a[i]) = Occurrences(b, a[i])

\* C15: the k-th detections message carries exactly the detections the k-th
\* inference call returned, in non-increasing confidence order; every call
\* that returned has its message, an empty list included.
C15_ResultIsSortedInference ==
    /\ Len(Results) = Cardinality({i \in 1..Len(analyses) :
                                      analyses[i].outcome = "returned"})
    /\ \A k \in 1..Len(Results) :
          /\ analyses[k].outcome = "returned"
          /\ SameDetections(Results[k].dets, analyses[k].returned)
          /\ \A i \in 1..(Len(Results[k].dets) - 1) :
                Results[k].dets[i].confidence >= Results[k].dets[i + 1].confidence

\* C15 witness: one inference returned nothing and an empty list was sent;
\* another returned two detections in ascending order and they were sent
\* most confident first.
C15_Witness ==
    /\ Len(Results) = 2
    /\ \A k \in 1..2 : Results[k].res = "ok"
    /\ Results[1].dets = << >>
    /\ Len(Results[2].dets) = 2
    /\ Results[2].dets # analyses[2].returned

\* C16: while the inference for window k is in flight the buffer is what
\* it was when the call was made (no chunk is read or appended) and the
\* results of the windows before k are all out; whenever the session is back
\* at the top of the loop or reads the next chunk, every analysis made so far
\* has returned and its result has been sent.
C16_StrictlySequential ==
    /\ pc = "infer" =>
          /\ Len(analyses) >= 1
          /\ analyses[Len(analyses)].outcome = "running"
          /\ BufLen(buffer) = analyses[Len(analyses)].buflen
          /\ wav.threshold = analyses[Len(analyses)].threshold
          /\ Len(Results) = Len(analyses) - 1
    /\ pc \in {"loop", "recv"} =>
          /\ Len(Results) = Len(analyses)
          /\ \A k \in 1..Len(analyses) : analyses[k].outcome = "returned"
    /\ \A k \in 1..Len(analyses) :
          analyses[k].outcome = "running" => (k = Len(analyses) /\ pc = "infer")
    /\ \A k \in 1..Len(analyses) :
          analyses[k].outcome = "raised" =>
              (k = Len(analyses) /\ Ended /\ Len(Errors) >= 1)

\* C16 witness: an inference has been running for a second while the client
\* still has a chunk to send, and its result is not out yet.
C16_Witness ==
    /\ pc = "infer"
    /\ waited >= 1
    /\ Len(buffer) < MaxChunks
    /\ Len(analyses) = 1
    /\ Results = << >>

\* The raw detections of the request that are of species sp.
RawOf(sp) == {i \in 1..Len(oneshot.raw) : oneshot.raw[i].scientific_name = sp}

\* C17: a one-shot response holds exactly one entry per scientific name of
\* the raw detections, and that entry is a raw detection of the species with
\* the largest confidence among them.
C17_OnePerSpeciesMaxConfidence ==
    (oneshot.phase = "responded" /\ oneshot.status = 200) =>
        /\ Keys(oneshot.response) = Keys(oneshot.raw)
        /\ Len(oneshot.response) = Cardinality(Keys(oneshot.raw))
        /\ \A k \in 1..Len(oneshot.response) :
              LET det == oneshot.response[k] IN
              /\ \E i \in RawOf(det.scientific_name) : oneshot.raw[i] = det
              /\ \A i \in RawOf(det.scientific_name) :
                    det.confidence >= oneshot.raw[i].confidence

\* C17 witness: raw detections A at 0.4, B at 0.6, A at 0.9 were answered
\* with A at 0.9 and B at 0.6.
C17_Witness ==
    /\ oneshot.phase = "responded"
    /\ oneshot.raw = << [scientific_name |-> "A", confidence |-> 40],
                        [scientific_name |-> "B", confidence |-> 60],
                        [scientific_name |-> "A", confidence |-> 90] >>
    /\ oneshot.response = << [scientific_name |-> "A", confidence |-> 90],
                             [scientific_name |-> "B", confidence |-> 60] >>

\* C18: once streaming has begun the next threshold is a positive multiple
\* of 288000; it is set to 288000 when streaming begins and every later
\* change adds exactly 288000; and no step makes the buffer shorter.
C18_ThresholdSteps ==
    /\ [](IF init = NoInit
          THEN next_window_bytes = 0
          ELSE /\ next_window_bytes > 0
               /\ next_window_bytes % WINDOW_BYTES = 0)
    /\ [][/\ (init = NoInit /\ init' # NoInit) => next_window_bytes' = WINDOW_BYTES
          /\ (init # NoInit /\ next_window_bytes' # next_window_bytes)
                => next_window_bytes' = next_window_bytes + WINDOW_BYTES
          /\ BufLen(buffer') >= BufLen(buffer)]_vars

\* C18 witness: the threshold has been moved on twice, to 864000.
C18_Witness ==
    /\ next_window_bytes = 3 * WINDOW_BYTES
    /\ Len(buffer) = 2

IsTimeout(e) == e.kind = "timeout"

\* The timeout notifications the session has attempted.
Timeouts == SelectSeq(log, IsTimeout)

\* C19: a timeout notification is only ever added by a step taken at the top
\* of the loop with elapsed >= timeout; while an inference is in flight none
\* has been sent; and the step in which an inference returns sends that
\* window's detections, however late it is.
C19_TimeoutIsCooperative ==
    /\ [](pc = "infer" => Timeouts = << >>)
    /\ [][/\ Timeouts' # Timeouts =>
                /\ pc = "loop"
                /\ Elapsed >= init.timeout
                /\ Timeouts = << >>
          /\ (pc = "infer" /\ pc' # "infer") =>
                /\ Timeouts' = << >>
                /\ Len(log') > Len(log)
                /\ log'[Len(log) + 1].kind \in {"detections", "error"}
          /\ (pc = "infer" /\ analyses'[Len(analyses)].outcome = "returned") =>
                /\ Len(log') > Len(log)
                /\ log'[Len(log) + 1].kind = "detections"
                /\ log'[Len(log) + 1].window = wav.threshold]_vars

\* C19 witness: an inference that began before the deadline returned after
\* it, its result went out, and the session is back at the top of the loop.
C19_Witness ==
    /\ pc = "loop"
    /\ Len(log) >= 1
    /\ log[Len(log)].kind = "detections"
    /\ log[Len(log)].res = "ok"
    /\ Elapsed - waited < init.timeout
    /\ Elapsed >= init.timeout

Delivered(e) == e.kind # "close" /\ e.res = "ok"

\* A timeout notification or an error message that went out.
TerminalDelivered(e) == e.kind \in {"timeout", "error"} /\ e.res = "ok"

\* C21: the session delivers at most one terminal message (timeout
\* notification or error message), and once one is delivered no further
\* message follows it, whatever the later send and close operations do.
C21_AtMostOneTerminalMessage ==
    /\ Len(SelectSeq(log, TerminalDelivered)) <= 1
    /\ \A i \in 1..Len(log) :
          TerminalDelivered(log[i]) =>
              \A j \in (i + 1)..Len(log) : ~Delivered(log[j])

====
